---- MODULE Spec2Model ----
(***************************************************************************)
(* FleetCare: maintenance-slot booking (Django + Django REST framework).   *)
(*                                                                         *)
(* The model follows core/models.py (Automobile.save, Driver, Slot,        *)
(* Appointment.save, send_bot_notification), core/serializers.py and       *)
(* core/api.py (DriverViewSet.by_phone, SlotViewSet.list and free_dates,   *)
(* AppointmentViewSet: create, update / partial_update, active_by_phone,   *)
(* cancel_user).                                                           *)
(*                                                                         *)
(* Spec         : every request handler is one atomic action.              *)
(* SpecConc     : POST /api/appointments/ requests run concurrently; every *)
(*                database statement of a request is one step (Django's    *)
(*                default autocommit mode, no select_for_update in the     *)
(*                code).                                                   *)
(* SpecFail     : SpecConc with database writes that raise.                *)
(* SpecQuery    : the read handlers over booked and cancelled slots.       *)
(* SpecRegistry : the Driver and Automobile tables, the phone lookup.      *)
(* SpecSteps    : a cancelling save, statement by statement.               *)
(***************************************************************************)
EXTENDS Integers, Sequences, FiniteSets, TLC

VARIABLES
    slots,          \* Slot table: slot id -> Slot.status
    appointments,   \* Appointment table: sequence, the index is the pk
    notifications,  \* Notification table, in insertion order
    resp,           \* the last request and its HTTP response
    reqs,           \* SpecConc: the in-flight create requests
    drivers,        \* Driver table: driver id -> phone
    automobiles     \* Automobile table: car id -> the mileage fields

vars == <<slots, appointments, notifications, resp, reqs, drivers, automobiles>>

----------------------------------------------------------------------------
(* Bounds of the model *)

MaxAppointments == 2

MaxNotifications == 2

NumRequests == 2

----------------------------------------------------------------------------
(* models.py: choices *)

FREE == "free"

BUSY == "busy"

SlotStatus == {FREE, BUSY}

ACTIVE == "active"

CANCELLED_MANAGER == "cancelled_manager"

CANCELLED_USER == "cancelled_user"

AppointmentStatus == {ACTIVE, CANCELLED_MANAGER, CANCELLED_USER}

----------------------------------------------------------------------------
(* Fixture rows.  Dates are day ordinals: ordinal 0 is 2026-01-29, so that *)
(* the calendar below crosses a month boundary.  Times are minutes since   *)
(* midnight.  Slot.(date, time) is unique (unique_together).               *)

SlotTable ==
    << [date |-> 2, time |-> 540],
       [date |-> 2, time |-> 600],
       [date |-> 4, time |-> 540] >>

SlotIds == 1..Len(SlotTable)

\* Driver.car is a OneToOneField; chat_id is nullable (0 stands for NULL).
\* last_name is the rank of the name in the collation: driver 2 sorts first.
DriverTable ==
    << [car |-> 1, chat_id |-> 7001, last_name |-> 2],
       [car |-> 2, chat_id |-> 0, last_name |-> 1] >>

DriverIds == 1..Len(DriverTable)

AutomobileIds == {1, 2}

\* Automobile.plate_number (unique).
AutomobileTable ==
    << [plate_number |-> "A001AA"], [plate_number |-> "B002BB"] >>

\* Phone numbers as they are stored and sent: strings of characters.
\* "+7 (911) 123-45-67"
PhonePlus7 ==
    <<"+", "7", " ", "(", "9", "1", "1", ")", " ",
      "1", "2", "3", "-", "4", "5", "-", "6", "7">>

\* "7 911 123 45 67"
PhoneSpaces ==
    <<"7", " ", "9", "1", "1", " ", "1", "2", "3", " ", "4", "5", " ", "6", "7">>

\* "8 (911) 123-45-67"
Phone8 ==
    <<"8", " ", "(", "9", "1", "1", ")", " ",
      "1", "2", "3", "-", "4", "5", "-", "6", "7">>

\* "911-123-45-67"
PhoneLocal ==
    <<"9", "1", "1", "-", "1", "2", "3", "-", "4", "5", "-", "6", "7">>

\* "79111234567"
PhoneDigits == <<"7", "9", "1", "1", "1", "2", "3", "4", "5", "6", "7">>

Phones == {PhonePlus7, PhoneSpaces, Phone8, PhoneLocal}

\* The rows the tables start with; every Automobile row was written by
\* Automobile.save.
InitDrivers == [d \in DriverIds |-> IF d = 1 THEN Phone8 ELSE PhonePlus7]

InitAutomobiles ==
    [c \in AutomobileIds |->
        IF c = 1
        THEN [last_service_mileage |-> 45000, service_interval_km |-> 10000,
              next_service_mileage |-> 55000]
        ELSE [last_service_mileage |-> 0, service_interval_km |-> 10000,
              next_service_mileage |-> 10000]]

\* The values date.today() takes in the model.
Todays == {2, 3}

----------------------------------------------------------------------------
(* str(datetime.date): ISO "YYYY-MM-DD", kept as <<year, month, day>>.     *)
(* Ordinals 0..2 are 29..31 January 2026, ordinal n > 2 is (n-2) February. *)

DateStr(d) ==
    IF d <= 2 THEN <<2026, 1, 29 + d>> ELSE <<2026, 2, d - 2>>

----------------------------------------------------------------------------
(* The last request and its response.  op: the handler; code: the HTTP     *)
(* status; delivery: what send_bot_notification ended with ("none": it was *)
(* not called); query / today / body: the read handlers.                   *)

Response(op, code, delivery) ==
    [op |-> op, code |-> code, delivery |-> delivery,
     query |-> <<>>, today |-> 0, body |-> <<>>]

NoResponse == Response("none", 0, "none")

Init ==
    /\ slots = [s \in SlotIds |-> FREE]
    /\ appointments = <<>>
    /\ notifications = <<>>
    /\ resp = NoResponse
    /\ reqs = <<>>
    /\ drivers = InitDrivers
    /\ automobiles = InitAutomobiles

----------------------------------------------------------------------------
(* serializers.py: AppointmentSerializer.  A payload is a record; slot,    *)
(* driver and car are primary keys (0: the field is not in the payload),   *)
(* status is a choice (Absent: not in the payload).  slot_id, driver and   *)
(* car are required unless the update is partial; status has a model       *)
(* default and is never required.  Model.clean() is not part of            *)
(* serializer validation.                                                  *)

Absent == "absent"

NoSuchPk == Len(SlotTable) + 1

\* The slots the requests of Spec book: one of the two on 2026-01-31 and
\* the one on 2026-02-02.
BookingSlots == {1, 3}

\* POST bodies: every field given, the slot_id possibly of no row.
CreatePayloads ==
    [slot : BookingSlots \cup {NoSuchPk},
     driver : DriverIds,
     car : AutomobileIds,
     status : {Absent, CANCELLED_MANAGER, CANCELLED_USER}]

EmptyPayload == [slot |-> 0, driver |-> 0, car |-> 0, status |-> Absent]

\* PATCH bodies: at most one field.
PatchPayloads ==
    {EmptyPayload}
    \cup {[EmptyPayload EXCEPT !.slot = s] : s \in BookingSlots \cup {NoSuchPk}}
    \cup {[EmptyPayload EXCEPT !.driver = d] : d \in DriverIds}
    \cup {[EmptyPayload EXCEPT !.car = c] : c \in AutomobileIds}
    \cup {[EmptyPayload EXCEPT !.status = st] : st \in AppointmentStatus}

\* PUT bodies: a driver with the car assigned to it, no status, and a
\* slot_id or (an invalid body) none.
PutPayloads ==
    {[slot |-> s, driver |-> d, car |-> DriverTable[d].car, status |-> Absent] :
        s \in {0} \cup BookingSlots, d \in DriverIds}

UpdateRequests ==
    {[data |-> d, partial |-> TRUE] : d \in PatchPayloads}
    \cup {[data |-> d, partial |-> FALSE] : d \in PutPayloads}

is_valid(data, partial) ==
    /\ IF data.slot = 0 THEN partial ELSE data.slot \in SlotIds
    /\ IF data.driver = 0 THEN partial ELSE data.driver \in DriverIds
    /\ IF data.car = 0 THEN partial ELSE data.car \in AutomobileIds
    /\ data.status \in AppointmentStatus \cup {Absent}

\* ModelSerializer.create: Appointment(**validated_data); a missing status
\* takes the model default (models.py:114).
NewInstance(data) ==
    [slot |-> data.slot, driver |-> data.driver, car |-> data.car,
     status |-> IF data.status = Absent THEN ACTIVE ELSE data.status]

\* ModelSerializer.update: setattr(instance, attr, value) for every validated field.
UpdatedInstance(instance, data) ==
    [slot |-> IF data.slot = 0 THEN instance.slot ELSE data.slot,
     driver |-> IF data.driver = 0 THEN instance.driver ELSE data.driver,
     car |-> IF data.car = 0 THEN instance.car ELSE data.car,
     status |-> IF data.status = Absent THEN instance.status ELSE data.status]

----------------------------------------------------------------------------
(* models.py: Appointment.clean.  Returns the ValidationError it raises,   *)
(* or "ok".  slotStatus is the status of the instance's slot, creating is  *)
(* `self.id is None`.                                                      *)

clean(instance, slotStatus, creating) ==
    IF DriverTable[instance.driver].car # instance.car
    THEN "car_not_of_driver"
    ELSE IF creating /\ slotStatus # FREE
    THEN "slot_busy"
    ELSE "ok"

----------------------------------------------------------------------------
(* models.py: send_bot_notification.  token: whether TELEGRAM_BOT_TOKEN is *)
(* set; net: what the HTTP POST does ("ok", "non200", "raise": any         *)
(* exception, a timeout included).  The Notification row is created first. *)

Nets == {"ok", "non200", "raise"}

\* What one call of send_bot_notification may find around it.
Envs == [token : BOOLEAN, net : Nets]

\* For a save that does not reach send_bot_notification.
NoEnv == [token |-> FALSE, net |-> "ok"]

DeliveryOutcome(driver, token, net) ==
    IF ~token THEN "no_token"
    ELSE IF DriverTable[driver].chat_id = 0 THEN "no_chat_id"
    ELSE IF net = "raise" THEN "exception"
    ELSE IF net = "non200" THEN "non200"
    ELSE "sent"

\* A delivery whose failed POST is not caught.
DeliveryRaisesUncaught(driver, token, net) ==
    token /\ DriverTable[driver].chat_id # 0 /\ net = "raise"

\* Whether the call propagates an exception to its caller: the POST is made
\* inside try / except Exception, so it never does.
DeliveryRaises(driver, token, net) == FALSE

send_bot_notification(log, driver, text, token, net) ==
    [notifications |-> Append(log, [driver |-> driver, text |-> text]),
     delivery |-> DeliveryOutcome(driver, token, net),
     raised |-> DeliveryRaises(driver, token, net)]

\* f"Ваша запись на {self.slot.date} {self.slot.time} отменена"
CancelText(slot) == <<DateStr(SlotTable[slot].date), SlotTable[slot].time>>

----------------------------------------------------------------------------
(* models.py: Appointment.save, on the current tables.  id = 0: the        *)
(* instance has no pk yet.  Returns the tables after the call.             *)

ReserveOnCreate(creating, instance, slotStatus) ==
    creating /\ instance.status = ACTIVE /\ slotStatus # BUSY

\* A test of the new status alone.
IsCancelledStatus(creating, prevStatus, instance) ==
    /\ ~creating
    /\ instance.status \in {CANCELLED_MANAGER, CANCELLED_USER}

IsCancelTransition(creating, prevStatus, instance) ==
    /\ ~creating
    /\ prevStatus # instance.status
    /\ instance.status \in {CANCELLED_MANAGER, CANCELLED_USER}

\* A cancellation that leaves the slot as it is.
ReleaseNever(cancel, slotStatus) == FALSE

\* models.py:162: the slot of a cancelled appointment is written FREE unless
\* it is FREE already.
ReleaseOnCancel(cancel, slotStatus) == cancel /\ slotStatus # FREE

save(id, instance, token, net) ==
    LET creating == id = 0
        prevStatus == IF creating THEN Absent ELSE appointments[id].status
        apps1 == IF creating THEN Append(appointments, instance)
                 ELSE [appointments EXCEPT ![id] = instance]
        slots1 == IF ReserveOnCreate(creating, instance, slots[instance.slot])
                  THEN [slots EXCEPT ![instance.slot] = BUSY]
                  ELSE slots
        cancel == IsCancelTransition(creating, prevStatus, instance)
        slots2 == IF ReleaseOnCancel(cancel, slots1[instance.slot])
                  THEN [slots1 EXCEPT ![instance.slot] = FREE]
                  ELSE slots1
        sent == IF cancel
                THEN send_bot_notification(notifications, instance.driver,
                                           CancelText(instance.slot), token, net)
                ELSE [notifications |-> notifications, delivery |-> "none",
                      raised |-> FALSE]
    IN [appointments |-> apps1, slots |-> slots2,
        notifications |-> sent.notifications, delivery |-> sent.delivery,
        raised |-> sent.raised]

----------------------------------------------------------------------------
(* api.py: AppointmentViewSet.  CreateModelMixin.create answers 201,       *)
(* 400 when the serializer rejects the payload; an exception that leaves   *)
(* the view is a 500.  The environment of send_bot_notification is drawn   *)
(* only by a save that calls it.                                           *)

EnvsOf(id, instance) ==
    IF id # 0 /\ IsCancelTransition(FALSE, appointments[id].status, instance)
    THEN Envs
    ELSE {NoEnv}

Commit(op, okCode, id, instance) ==
    \E env \in EnvsOf(id, instance) :
       LET r == save(id, instance, env.token, env.net) IN
       /\ Len(r.notifications) <= MaxNotifications
       /\ appointments' = r.appointments
       /\ slots' = r.slots
       /\ notifications' = r.notifications
       /\ resp' = Response(op, IF r.raised THEN 500 ELSE okCode, r.delivery)

Reject(op, code) ==
    /\ resp' = Response(op, code, "none")
    /\ UNCHANGED <<slots, appointments, notifications>>

Create(data) ==
    /\ reqs = <<>>
    /\ Len(appointments) < MaxAppointments
    /\ IF ~is_valid(data, FALSE)
       THEN Reject("create", 400)
       ELSE Commit("create", 201, 0, NewInstance(data))
    /\ UNCHANGED <<reqs, drivers, automobiles>>

\* UpdateModelMixin: PUT (partial = FALSE) and PATCH (partial = TRUE).
Update(id, data, partial) ==
    /\ reqs = <<>>
    /\ IF id > Len(appointments)
       THEN Reject("update", 404)
       ELSE IF ~is_valid(data, partial)
       THEN Reject("update", 400)
       ELSE Commit("update", 200, id, UpdatedInstance(appointments[id], data))
    /\ UNCHANGED <<reqs, drivers, automobiles>>

\* POST /api/appointments/{id}/cancel_user/
cancel_user(id) ==
    /\ reqs = <<>>
    /\ IF id > Len(appointments)
       THEN Reject("cancel_user", 404)
       ELSE Commit("cancel_user", 200, id,
                   [appointments[id] EXCEPT !.status = CANCELLED_USER])
    /\ UNCHANGED <<reqs, drivers, automobiles>>

----------------------------------------------------------------------------
(* Spec: the handlers that write, one request at a time. *)

Next ==
    \/ \E data \in CreatePayloads : Create(data)
    \/ \E id \in 1..MaxAppointments, rq \in UpdateRequests :
          Update(id, rq.data, rq.partial)
    \/ \E id \in 1..MaxAppointments : cancel_user(id)

Spec == Init /\ [][Next]_vars

----------------------------------------------------------------------------
(* SpecConc: NumRequests POST /api/appointments/ requests in flight at     *)
(* once.  A request runs CreateModelMixin.create in three steps, each one  *)
(* database statement committed on its own (autocommit):                   *)
(*   "validate": serializer.is_valid() reads the Slot row into the         *)
(*               request's own Slot object (seen);                         *)
(*   "insert"  : Appointment.save calls super().save(): the INSERT;        *)
(*   "reserve" : save tests self.slot.status, the object read at           *)
(*               "validate", and writes BUSY to the row.                   *)

\* The bodies of the concurrent requests: a driver books with the car
\* assigned to it, the status left to its default; the slot_id may be of
\* no row.
ConcPayloads ==
    {[slot |-> s, driver |-> d, car |-> DriverTable[d].car, status |-> Absent] :
        s \in BookingSlots \cup {NoSuchPk}, d \in DriverIds}

Requests == 1..NumRequests

InitConc ==
    /\ slots = [s \in SlotIds |-> FREE]
    /\ appointments = <<>>
    /\ notifications = <<>>
    /\ resp = NoResponse
    /\ reqs \in [Requests -> [pc : {"validate"}, data : ConcPayloads,
                              seen : {FREE}, code : {0}]]
    /\ drivers = InitDrivers
    /\ automobiles = InitAutomobiles

Validate(p) ==
    /\ reqs[p].pc = "validate"
    /\ reqs' = IF is_valid(reqs[p].data, FALSE)
               THEN [reqs EXCEPT ![p].pc = "insert",
                                 ![p].seen = slots[reqs[p].data.slot]]
               ELSE [reqs EXCEPT ![p].pc = "done", ![p].code = 400]
    /\ UNCHANGED <<slots, appointments, notifications, resp, drivers, automobiles>>

Insert(p) ==
    /\ reqs[p].pc = "insert"
    /\ appointments' = Append(appointments, NewInstance(reqs[p].data))
    /\ reqs' = [reqs EXCEPT ![p].pc = "reserve"]
    /\ UNCHANGED <<slots, notifications, resp, drivers, automobiles>>

Reserve(p) ==
    /\ reqs[p].pc = "reserve"
    /\ slots' = IF ReserveOnCreate(TRUE, NewInstance(reqs[p].data), reqs[p].seen)
                THEN [slots EXCEPT ![reqs[p].data.slot] = BUSY]
                ELSE slots
    /\ reqs' = [reqs EXCEPT ![p].pc = "done", ![p].code = 201]
    /\ UNCHANGED <<appointments, notifications, resp, drivers, automobiles>>

NextConc == \E p \in Requests : Validate(p) \/ Insert(p) \/ Reserve(p)

SpecConc == InitConc /\ [][NextConc]_vars

----------------------------------------------------------------------------
(* SpecFail: SpecConc with writes that the database refuses.  A write that *)
(* raises leaves its row as it was and the exception leaves save and the   *)
(* view: the request ends with a 500.  Appointment.save opens no           *)
(* transaction and catches nothing, so what was written before stays.      *)

\* super().save() raises: no row is inserted.
InsertFails(p) ==
    /\ reqs[p].pc = "insert"
    /\ reqs' = [reqs EXCEPT ![p].pc = "done", ![p].code = 500]
    /\ UNCHANGED <<slots, appointments, notifications, resp, drivers, automobiles>>

\* self.slot.save(update_fields=["status"]) raises: the slot row keeps its
\* status, the appointment row is already inserted.
ReserveFails(p) ==
    /\ reqs[p].pc = "reserve"
    /\ ReserveOnCreate(TRUE, NewInstance(reqs[p].data), reqs[p].seen)
    /\ reqs' = [reqs EXCEPT ![p].pc = "done", ![p].code = 500]
    /\ UNCHANGED <<slots, appointments, notifications, resp, drivers, automobiles>>

NextFail ==
    \E p \in Requests :
       \/ Validate(p)
       \/ Insert(p)
       \/ InsertFails(p)
       \/ Reserve(p)
       \/ ReserveFails(p)

SpecFail == InitConc /\ [][NextFail]_vars

----------------------------------------------------------------------------
(* api.py: SlotViewSet.free_dates.  The query string is a sequence holding *)
(* the value of ?days= (a string of decimal digits) or nothing; day is     *)
(* what date.today() returns.                                              *)

\* int(text) of a string of decimal digits.
RECURSIVE int(_)
int(digits) ==
    IF digits = <<>> THEN 0
    ELSE 10 * int(SubSeq(digits, 1, Len(digits) - 1)) + digits[Len(digits)]

\* request.query_params.get("days", "7")
DaysParam(query) == IF query = <<>> THEN <<7>> ELSE query[1]

\* .order_by("date") over the distinct dates: ascending.
RECURSIVE order_by(_)
order_by(dates) ==
    IF dates = {} THEN <<>>
    ELSE LET first == CHOOSE d \in dates : \A e \in dates : d <= e
         IN <<first>> \o order_by(dates \ {first})

\* A horizon that stops the day before `until`.
FreeBeforeUntil(table, from, until) ==
    {s \in SlotIds : /\ table[s] = FREE
                     /\ SlotTable[s].date >= from
                     /\ SlotTable[s].date < until}

\* Slot.objects.filter(status=FREE, date__gte=today, date__lte=until)
FreeInRange(table, from, until) ==
    {s \in SlotIds : /\ table[s] = FREE
                     /\ SlotTable[s].date >= from
                     /\ SlotTable[s].date <= until}

\* .values_list("date", flat=True).distinct().order_by("date"), then the
\* list of str(d).
free_dates_body(table, day, query) ==
    LET days == int(DaysParam(query))
        until == day + days
        qs == order_by({SlotTable[s].date : s \in FreeInRange(table, day, until)})
    IN [i \in 1..Len(qs) |-> DateStr(qs[i])]

\* The query strings of the model: no days parameter, or days = 0, 1, 2, 10.
Queries == {<<>>, <<<<0>>>>, <<<<1>>>>, <<<<2>>>>, <<<<1, 0>>>>}

free_dates(query, day) ==
    /\ reqs = <<>>
    /\ resp' = [Response("free_dates", 200, "none") EXCEPT
                   !.query = query, !.today = day,
                   !.body = free_dates_body(slots, day, query)]
    /\ UNCHANGED <<slots, appointments, notifications, reqs, drivers, automobiles>>

----------------------------------------------------------------------------
(* api.py: SlotViewSet.list.  The query string holds the value of ?date=   *)
(* (an ISO date string, or the empty string) or nothing.                   *)

\* The date an ISO string of the model's calendar names (the inverse of
\* DateStr): what filter(date=...) compares the column with.
DateParse(text) == IF text[2] = 1 THEN text[3] - 29 ELSE text[3] + 2

\* str(datetime.time), the TimeField of SlotSerializer: "HH:MM:SS".
TimeStr(t) == <<t \div 60, t % 60, 0>>

\* (date, time) of slot a is before (date, time) of slot b.
SlotBefore(a, b) ==
    \/ SlotTable[a].date < SlotTable[b].date
    \/ /\ SlotTable[a].date = SlotTable[b].date
       /\ SlotTable[a].time < SlotTable[b].time

\* An ordering by time alone.
order_by_time(ids) ==
    CHOOSE seq \in [1..Cardinality(ids) -> ids] :
       /\ {seq[i] : i \in 1..Len(seq)} = ids
       /\ \A i \in 1..Len(seq) - 1 :
             \/ SlotTable[seq[i]].time < SlotTable[seq[i + 1]].time
             \/ /\ SlotTable[seq[i]].time = SlotTable[seq[i + 1]].time
                /\ SlotTable[seq[i]].date < SlotTable[seq[i + 1]].date

\* .order_by("date", "time") over slot rows; (date, time) is unique.
RECURSIVE order_by_date_time(_)
order_by_date_time(ids) ==
    IF ids = {} THEN <<>>
    ELSE LET first == CHOOSE a \in ids : \A b \in ids \ {a} : SlotBefore(a, b)
         IN <<first>> \o order_by_date_time(ids \ {first})

\* SlotSerializer: fields id, date, time, status.
SlotData(table, s) ==
    [id |-> s, date |-> DateStr(SlotTable[s].date),
     time |-> TimeStr(SlotTable[s].time), status |-> table[s]]

list_body(table, query) ==
    LET want_date == IF query = <<>> THEN <<>> ELSE query[1]
        free == {s \in SlotIds : table[s] = FREE}
        qs == IF want_date # <<>>
              THEN {s \in free : SlotTable[s].date = DateParse(want_date)}
              ELSE free
        rows == order_by_date_time(qs)
    IN [i \in 1..Len(rows) |-> SlotData(table, rows[i])]

\* The query strings of the model: no date, an empty date, and the dates
\* 2026-01-31, 2026-02-01 (no slot) and 2026-02-02.
ListQueries == {<<>>, <<<<>>>>, <<DateStr(2)>>, <<DateStr(3)>>, <<DateStr(4)>>}

list(query) ==
    /\ reqs = <<>>
    /\ resp' = [Response("list", 200, "none") EXCEPT
                   !.query = query, !.body = list_body(slots, query)]
    /\ UNCHANGED <<slots, appointments, notifications, reqs, drivers, automobiles>>

----------------------------------------------------------------------------
(* api.py: DriverViewSet.  by_phone compares the digits of the query with  *)
(* the digits of each stored phone, over the drivers in Meta.ordering.     *)

Digit == {"0", "1", "2", "3", "4", "5", "6", "7", "8", "9"}

IsDigit(ch) == ch \in Digit

\* A comparison of the strings as they are.
re_sub_nothing(text) == text

\* re.sub(r"\D+", "", text): the digits of text, in order.
re_sub_nondigits(text) == SelectSeq(text, IsDigit)

\* str.strip(): the whitespace at both ends removed.
RECURSIVE strip(_)
strip(text) ==
    IF text = <<>> THEN <<>>
    ELSE IF Head(text) = " " THEN strip(Tail(text))
    ELSE IF text[Len(text)] = " " THEN strip(SubSeq(text, 1, Len(text) - 1))
    ELSE text

\* Driver.objects.all(): the ids ordered by Meta.ordering (last_name).
RECURSIVE DriversInOrder(_)
DriversInOrder(ids) ==
    IF ids = {} THEN <<>>
    ELSE LET first == CHOOSE d \in ids : \A e \in ids :
                         DriverTable[d].last_name <= DriverTable[e].last_name
         IN <<first>> \o DriversInOrder(ids \ {first})

\* The for loop of by_phone: the first driver of seq whose digits are norm
\* (0: the loop ends without a return).
RECURSIVE FirstMatch(_, _, _)
FirstMatch(table, seq, norm) ==
    IF seq = <<>> THEN 0
    ELSE IF re_sub_nondigits(table[Head(seq)]) = norm THEN Head(seq)
    ELSE FirstMatch(table, Tail(seq), norm)

\* DriverSerializer, without the names.
DriverData(table, d) ==
    [id |-> d, phone |-> table[d], car |-> DriverTable[d].car,
     chat_id |-> DriverTable[d].chat_id]

\* ?phone= absent, empty, blank, and numbers in several formattings.
ByPhoneQueries ==
    {<<>>, << <<>> >>, << <<" ", " ">> >>, << <<"a", "b">> >>,
     <<PhoneDigits>>, <<PhoneLocal>>, <<PhonePlus7>>, <<Phone8>>,
     << <<" ">> \o PhoneSpaces \o <<" ">> >>}

by_phone(query) ==
    LET phone == strip(IF query = <<>> THEN <<>> ELSE query[1])
        d == FirstMatch(drivers, DriversInOrder(DriverIds),
                        re_sub_nondigits(phone))
    IN /\ reqs = <<>>
       /\ resp' = IF phone = <<>>
                  THEN [Response("by_phone", 400, "none") EXCEPT !.query = query]
                  ELSE IF d = 0
                  THEN [Response("by_phone", 404, "none") EXCEPT !.query = query]
                  ELSE [Response("by_phone", 200, "none") EXCEPT
                           !.query = query, !.body = <<DriverData(drivers, d)>>]
       /\ UNCHANGED <<slots, appointments, notifications, reqs, drivers,
                      automobiles>>

\* PATCH /api/drivers/{d}/ {phone}: the UniqueValidator of the serializer
\* refuses a phone another driver holds.
partial_update(d, phone) ==
    /\ reqs = <<>>
    /\ IF \E e \in DriverIds \ {d} : drivers[e] = phone
       THEN /\ resp' = Response("partial_update", 400, "none")
            /\ UNCHANGED drivers
       ELSE /\ resp' = Response("partial_update", 200, "none")
            /\ drivers' = [drivers EXCEPT ![d] = phone]
    /\ UNCHANGED <<slots, appointments, notifications, reqs, automobiles>>

----------------------------------------------------------------------------
(* models.py: Automobile.save.  The instance saved carries the values of   *)
(* last_service_mileage and service_interval_km its caller set, and the    *)
(* next_service_mileage it was loaded with.                                *)

Mileages == {0, 45000, 50000}

Intervals == {1000, 8000, 10000}

\* A save that writes the instance as it is.
recalc_nothing(instance) == instance

recalc_next_service(instance) ==
    [instance EXCEPT !.next_service_mileage =
        instance.last_service_mileage + instance.service_interval_km]

Automobile_save(c, last, interval) ==
    LET instance == [automobiles[c] EXCEPT !.last_service_mileage = last,
                                           !.service_interval_km = interval]
    IN /\ reqs = <<>>
       /\ automobiles' = [automobiles EXCEPT ![c] = recalc_next_service(instance)]
       /\ resp' = Response("Automobile.save", 0, "none")
       /\ UNCHANGED <<slots, appointments, notifications, reqs, drivers>>

----------------------------------------------------------------------------
(* SpecRegistry: the Driver and Automobile tables and the phone lookup. *)

NextRegistry ==
    \/ \E query \in ByPhoneQueries : by_phone(query)
    \/ \E d \in DriverIds, phone \in Phones : partial_update(d, phone)
    \/ \E c \in AutomobileIds, last \in Mileages, interval \in Intervals :
          Automobile_save(c, last, interval)

SpecRegistry == Init /\ [][NextRegistry]_vars

----------------------------------------------------------------------------
(* api.py: AppointmentViewSet.active_by_phone.  The driver is looked up by *)
(* the phone exactly as sent; the rows are ordered by the slot's date and  *)
(* time, rows of one slot in an order the database chooses.                *)

\* time.strftime("%H:%M")
strftime(t) == <<t \div 60, t % 60>>

\* Every appointment of the driver, whatever its status.
filter_driver(table, d) ==
    {i \in 1..Len(table) : table[i].driver = d}

\* .filter(driver=d, status=AppointmentStatus.ACTIVE)
filter_active(table, d) ==
    {i \in 1..Len(table) : table[i].driver = d /\ table[i].status = ACTIVE}

\* .order_by("slot__date", "slot__time"): the orders the database may give.
order_by_slot(table, ids) ==
    {seq \in [1..Cardinality(ids) -> ids] :
        /\ {seq[k] : k \in 1..Len(seq)} = ids
        /\ \A k \in 1..Len(seq) - 1 :
              ~SlotBefore(table[seq[k + 1]].slot, table[seq[k]].slot)}

\* One item of the answer.
ActiveData(table, i) ==
    [id |-> i,
     date |-> DateStr(SlotTable[table[i].slot].date),
     time |-> strftime(SlotTable[table[i].slot].time),
     car_plate |-> AutomobileTable[table[i].car].plate_number]

\* ?phone= absent, empty, the two stored phones, and the digits of one.
ActiveQueries == {<<>>, << <<>> >>, <<Phone8>>, <<PhonePlus7>>, <<PhoneDigits>>}

active_by_phone(query) ==
    LET phone == IF query = <<>> THEN <<>> ELSE query[1]
        found == {d \in DriverIds : drivers[d] = phone}
    IN /\ reqs = <<>>
       /\ IF phone = <<>>
          THEN resp' = [Response("active_by_phone", 400, "none") EXCEPT
                           !.query = query]
          ELSE IF found = {}
          THEN resp' = [Response("active_by_phone", 404, "none") EXCEPT
                           !.query = query]
          ELSE \E d \in found :
                  \E qs \in order_by_slot(appointments,
                                          filter_active(appointments, d)) :
                     resp' = [Response("active_by_phone", 200, "none") EXCEPT
                                 !.query = query,
                                 !.body = [k \in 1..Len(qs) |->
                                              ActiveData(appointments, qs[k])]]
       /\ UNCHANGED <<slots, appointments, notifications, reqs, drivers,
                      automobiles>>

----------------------------------------------------------------------------
(* SpecQuery: the read handlers, over the tables that bookings and         *)
(* cancellations by the drivers, each with its own car, produce.           *)

QueryCreatePayloads ==
    {[slot |-> s, driver |-> d, car |-> DriverTable[d].car, status |-> Absent] :
        s \in SlotIds, d \in DriverIds}

NextQuery ==
    \/ \E data \in QueryCreatePayloads : Create(data)
    \/ \E id \in 1..MaxAppointments : cancel_user(id)
    \/ \E query \in Queries, day \in Todays : free_dates(query, day)
    \/ \E query \in ListQueries : list(query)
    \/ \E query \in ActiveQueries : active_by_phone(query)

SpecQuery == Init /\ [][NextQuery]_vars

----------------------------------------------------------------------------
(* SpecSteps: a save that changes the status of a stored appointment,      *)
(* statement by statement, one request at a time.  reqs holds the request  *)
(* in flight: the instance in memory, the status save read as prev, the    *)
(* status of the slot object loaded with the instance, and where the       *)
(* request stands:                                                         *)
(*   "persist" : before super().save();                                    *)
(*   "release" : before the test and write of self.slot.status;            *)
(*   "audit"   : before Notification.objects.create;                       *)
(*   "deliver" : before the token / chat_id tests and the POST;            *)
(*   "done"    : before the response.                                      *)

\* An order in which the POST comes before the slot is written.
StepAfterDeliverEarly(pc) ==
    CASE pc = "persist" -> "audit"
      [] pc = "audit" -> "deliver"
      [] pc = "deliver" -> "release"
      [] pc = "release" -> "done"

\* The order of the statements of save and send_bot_notification.
StepAfter(pc) ==
    CASE pc = "persist" -> "release"
      [] pc = "release" -> "audit"
      [] pc = "audit" -> "deliver"
      [] pc = "deliver" -> "done"

\* get_object, the new status set on the instance (cancel_user: by the
\* view; PATCH {status}: by the serializer), and the read of prev in save.
load(op, id, status) ==
    /\ reqs = <<>>
    /\ id \in 1..Len(appointments)
    /\ Len(notifications) < MaxNotifications
    /\ reqs' = <<[op |-> op, pc |-> "persist", id |-> id,
                  instance |-> [appointments[id] EXCEPT !.status = status],
                  prev |-> appointments[id].status,
                  seen |-> slots[appointments[id].slot],
                  delivery |-> "none"]>>
    /\ UNCHANGED <<slots, appointments, notifications, resp, drivers, automobiles>>

\* super().save(); the side effects follow only on a cancel transition.
super_save ==
    /\ reqs # <<>>
    /\ reqs[1].pc = "persist"
    /\ appointments' = [appointments EXCEPT ![reqs[1].id] = reqs[1].instance]
    /\ reqs' = [reqs EXCEPT ![1].pc =
                   IF IsCancelTransition(FALSE, reqs[1].prev, reqs[1].instance)
                   THEN StepAfter("persist")
                   ELSE "done"]
    /\ UNCHANGED <<slots, notifications, resp, drivers, automobiles>>

\* if self.slot.status != FREE: write FREE.
release ==
    /\ reqs # <<>>
    /\ reqs[1].pc = "release"
    /\ slots' = IF ReleaseOnCancel(TRUE, reqs[1].seen)
                THEN [slots EXCEPT ![reqs[1].instance.slot] = FREE]
                ELSE slots
    /\ reqs' = [reqs EXCEPT ![1].pc = StepAfter("release")]
    /\ UNCHANGED <<appointments, notifications, resp, drivers, automobiles>>

\* Notification.objects.create(driver=driver, text=text, ...)
audit ==
    /\ reqs # <<>>
    /\ reqs[1].pc = "audit"
    /\ notifications' = Append(notifications,
                               [driver |-> reqs[1].instance.driver,
                                text |-> CancelText(reqs[1].instance.slot)])
    /\ reqs' = [reqs EXCEPT ![1].pc = StepAfter("audit")]
    /\ UNCHANGED <<slots, appointments, resp, drivers, automobiles>>

\* The rest of send_bot_notification: the tests and the POST.
deliver ==
    /\ reqs # <<>>
    /\ reqs[1].pc = "deliver"
    /\ \E env \in Envs :
          reqs' = [reqs EXCEPT
                     ![1].pc = StepAfter("deliver"),
                     ![1].delivery = DeliveryOutcome(reqs[1].instance.driver,
                                                     env.token, env.net)]
    /\ UNCHANGED <<slots, appointments, notifications, resp, drivers, automobiles>>

respond ==
    /\ reqs # <<>>
    /\ reqs[1].pc = "done"
    /\ resp' = Response(reqs[1].op, 200, reqs[1].delivery)
    /\ reqs' = <<>>
    /\ UNCHANGED <<slots, appointments, notifications, drivers, automobiles>>

NextSteps ==
    \/ \E data \in QueryCreatePayloads : Create(data)
    \/ \E id \in 1..MaxAppointments : load("cancel_user", id, CANCELLED_USER)
    \/ \E id \in 1..MaxAppointments : load("update", id, CANCELLED_MANAGER)
    \/ super_save
    \/ release
    \/ audit
    \/ deliver
    \/ respond

SpecSteps == Init /\ [][NextSteps]_vars

----------------------------------------------------------------------------
(* Claims checked under Spec *)

Cancelled == {CANCELLED_MANAGER, CANCELLED_USER}

Ids == 1..Len(appointments)

ActiveOn(s) ==
    {i \in Ids : appointments[i].slot = s /\ appointments[i].status = ACTIVE}

\* C1: in every reachable state, for every slot, the slot is BUSY if and
\* only if exactly one appointment referencing it is ACTIVE.
C1_OccupancyInvariant ==
    \A s \in SlotIds : (slots[s] = BUSY) <=> (Cardinality(ActiveOn(s)) = 1)

\* C3: a create request for a slot that is BUSY is refused (a 400 answer),
\* persists no appointment and leaves every slot and appointment as it was.
C3_CreateOnBusySlotRefused ==
    [][\A data \in CreatePayloads :
          (/\ Create(data)
           /\ data.slot \in SlotIds
           /\ slots[data.slot] = BUSY)
          => (/\ resp'.code = 400
              /\ appointments' = appointments
              /\ slots' = slots)]_vars

\* C4: cancel_user on an appointment that is not ACTIVE fails (no 200
\* answer) and changes neither the appointment nor any slot.
C4_CancelOfCancelledFails ==
    [][\A id \in Ids :
          (cancel_user(id) /\ appointments[id].status # ACTIVE)
          => (/\ resp'.code # 200
              /\ appointments' = appointments
              /\ slots' = slots)]_vars

\* C5: the only status changes of an appointment are ACTIVE -> CANCELLED_*;
\* the status of a cancelled appointment never changes again.
C5_StatusMonotone ==
    [][\A i \in Ids :
          appointments'[i].status # appointments[i].status
          => (appointments[i].status = ACTIVE
              /\ appointments'[i].status \in Cancelled)]_vars

\* C6: every persisted appointment has the car assigned to its driver
\* (Appointment.clean would not raise the mismatch error on it).
C6_VehicleIsDriversVehicle ==
    \A i \in Ids :
       clean(appointments[i], slots[appointments[i].slot], FALSE)
          # "car_not_of_driver"

\* The Notification rows about an appointment: those addressed to its driver
\* whose text names its slot (Notification has no key to Appointment).
NotificationsFor(i) ==
    {k \in 1..Len(notifications) :
        /\ notifications[k].driver = appointments[i].driver
        /\ notifications[k].text = CancelText(appointments[i].slot)}

\* C7: an appointment has no Notification row while it is ACTIVE and exactly
\* one once it is cancelled.
C7_OneNotificationPerCancelled ==
    \A i \in Ids :
       Cardinality(NotificationsFor(i))
          = IF appointments[i].status = ACTIVE THEN 0 ELSE 1

DeliveryOutcomes == {"sent", "no_token", "no_chat_id", "non200", "exception"}

\* C8: whatever the delivery does, a request that cancels an ACTIVE
\* appointment answers 200, and after it the appointment is cancelled and
\* its slot FREE.
C8_DeliveryFailureSwallowed ==
    [][\A i \in Ids :
          (appointments[i].status = ACTIVE /\ appointments'[i].status \in Cancelled)
          => (/\ resp'.code = 200
              /\ resp'.delivery \in DeliveryOutcomes
              /\ slots'[appointments'[i].slot] = FREE)]_vars

\* A cancellation answered 200 although the POST to the bot API raised.
C8_Witness ==
    /\ resp.op = "cancel_user"
    /\ resp.code = 200
    /\ resp.delivery = "exception"
    /\ \E i \in Ids : appointments[i].status = CANCELLED_USER
                      /\ slots[appointments[i].slot] = FREE

\* What cancelling appointment id with status st does to the tables: that
\* status on that row, its slot FREE, nothing else touched.
CancelEffect(id, st) ==
    /\ appointments' = [appointments EXCEPT ![id].status = st]
    /\ slots' = [slots EXCEPT ![appointments[id].slot] = FREE]

ManagerCancel == [EmptyPayload EXCEPT !.status = CANCELLED_MANAGER]

\* C9: cancelling an ACTIVE appointment writes CANCELLED_USER for
\* cancel_user and CANCELLED_MANAGER for the manager's status update, frees
\* its slot, and touches no other appointment or slot.
C9_CancelSetsStatusAndFreesSlot ==
    [][\A id \in Ids :
          appointments[id].status = ACTIVE
          => /\ (resp'.op = "cancel_user" /\ cancel_user(id))
                   => CancelEffect(id, CANCELLED_USER)
             /\ (resp'.op = "update" /\ Update(id, ManagerCancel, TRUE))
                   => CancelEffect(id, CANCELLED_MANAGER)]_vars

\* The manager has cancelled one appointment while another one stays ACTIVE
\* on its BUSY slot.
C9_Witness ==
    /\ resp.op = "update"
    /\ resp.code = 200
    /\ resp.delivery # "none"
    /\ \E i, j \in Ids :
          /\ appointments[i].status = CANCELLED_MANAGER
          /\ slots[appointments[i].slot] = FREE
          /\ appointments[j].status = ACTIVE
          /\ slots[appointments[j].slot] = BUSY

----------------------------------------------------------------------------
(* Claims checked under SpecConc *)

Created(s) == {p \in Requests : reqs[p].data.slot = s /\ reqs[p].code = 201}

\* C2: of the concurrent create requests for one slot at most one is
\* answered 201, and a slot never has two ACTIVE appointments.
C2_NoDoubleBooking ==
    \A s \in SlotIds :
       /\ Cardinality(ActiveOn(s)) <= 1
       /\ Cardinality(Created(s)) <= 1

----------------------------------------------------------------------------
(* Claims checked under SpecQuery *)

\* Order of two ISO date strings, as strings (field by field).
StrLess(a, b) ==
    \/ a[1] < b[1]
    \/ a[1] = b[1] /\ a[2] < b[2]
    \/ a[1] = b[1] /\ a[2] = b[2] /\ a[3] < b[3]

\* The horizon of the last free_dates request: ?days=, 7 without it.
Horizon == IF resp.query = <<>> THEN 7 ELSE int(resp.query[1])

\* The dates from today to today + horizon that have a FREE slot.
DatesWithFreeSlot ==
    {d \in resp.today .. resp.today + Horizon :
        \E s \in SlotIds : SlotTable[s].date = d /\ slots[s] = FREE}

\* C10: free_dates answers the dates from today to today + days (7 when
\* days is not given) that have a FREE slot, each once, ascending.
C10_FreeDates ==
    resp.op = "free_dates"
    => /\ {resp.body[i] : i \in 1..Len(resp.body)}
             = {DateStr(d) : d \in DatesWithFreeSlot}
       /\ \A i \in 1..Len(resp.body) - 1 : StrLess(resp.body[i], resp.body[i + 1])

\* Both slots of 2026-01-31 are BUSY and in the default horizon: only
\* 2026-02-02 is answered.
C10_Witness ==
    /\ resp.op = "free_dates"
    /\ resp.query = <<>>
    /\ resp.today = 2
    /\ slots[1] = BUSY /\ slots[2] = BUSY /\ slots[3] = FREE
    /\ resp.body = <<DateStr(4)>>

\* The date the last list request asked for (<<>>: none).
WantedDate == IF resp.query = <<>> THEN <<>> ELSE resp.query[1]

\* C11: list answers the FREE slots, those of the date asked for when one
\* is given, each once, ascending by (date, time); no BUSY slot is answered.
C11_ListFree ==
    resp.op = "list"
    => /\ {resp.body[i].id : i \in 1..Len(resp.body)}
             = {s \in SlotIds :
                   /\ slots[s] = FREE
                   /\ WantedDate # <<>> => DateStr(SlotTable[s].date) = WantedDate}
       /\ \A i \in 1..Len(resp.body) : resp.body[i].status = FREE
       /\ \A i \in 1..Len(resp.body) - 1 :
             SlotBefore(resp.body[i].id, resp.body[i + 1].id)

\* Without a date, with slot 1 BUSY: the 10:00 slot of 2026-01-31 is
\* answered before the 09:00 slot of 2026-02-02.
C11_Witness ==
    /\ resp.op = "list"
    /\ resp.query = <<>>
    /\ slots[1] = BUSY /\ slots[2] = FREE /\ slots[3] = FREE
    /\ Len(resp.body) = 2
    /\ resp.body[1].id = 2
    /\ resp.body[2].id = 3

----------------------------------------------------------------------------
(* Claims checked under SpecRegistry *)

\* The digits of a phone number.
RECURSIVE DigitsOf(_)
DigitsOf(text) ==
    IF text = <<>> THEN <<>>
    ELSE IF Head(text) \in Digit THEN <<Head(text)>> \o DigitsOf(Tail(text))
    ELSE DigitsOf(Tail(text))

\* The drivers whose stored phone has the digits of the last query.
Matching == {d \in DriverIds : DigitsOf(drivers[d]) = DigitsOf(resp.query[1])}

\* C12 as stated: while a driver is stored as "+7 (911) 123-45-67", the
\* queries "79111234567" and "911-123-45-67" both find a driver with the
\* digits of that phone.
C12_FoundByBothQueries ==
    /\ resp.op = "by_phone"
    /\ resp.query \in {<<PhoneDigits>>, <<PhoneLocal>>}
    /\ \E d \in DriverIds : drivers[d] = PhonePlus7
    => /\ resp.code = 200
       /\ DigitsOf(resp.body[1].phone) = DigitsOf(PhonePlus7)

\* C12: by_phone answers the first driver, in the order of the table, whose
\* stored phone has exactly the digits of the query, and 404 when there is
\* none; "+7 (911) 123-45-67" is found by "79111234567", and it is not
\* found by "911-123-45-67", whose digits are one fewer.
C12_ByPhoneSameDigits ==
    resp.op = "by_phone" /\ resp.code # 400
    => /\ resp.code = IF Matching = {} THEN 404 ELSE 200
       /\ resp.code = 200
          => /\ resp.body[1].id \in Matching
             /\ resp.body[1].phone = drivers[resp.body[1].id]
             /\ \A e \in Matching :
                   DriverTable[resp.body[1].id].last_name
                      <= DriverTable[e].last_name
       /\ (\E d \in DriverIds : drivers[d] = PhonePlus7)
          => /\ resp.query = <<PhoneDigits>> => resp.code = 200
             /\ /\ resp.query = <<PhoneLocal>>
                /\ \A d \in DriverIds : drivers[d] # PhoneLocal
                => resp.code = 404

\* "79111234567" finds driver 2, stored as "+7 (911) 123-45-67", while
\* driver 1, who sorts later, is stored with the same digits.
C12_Witness ==
    /\ resp.op = "by_phone"
    /\ resp.query = <<PhoneDigits>>
    /\ drivers[2] = PhonePlus7
    /\ drivers[1] = PhoneSpaces
    /\ resp.code = 200
    /\ resp.body[1].id = 2

\* C13: every stored Automobile has next_service_mileage equal to
\* last_service_mileage + service_interval_km.
C13_MileageDerivation ==
    \A c \in AutomobileIds :
       automobiles[c].next_service_mileage
          = automobiles[c].last_service_mileage
               + automobiles[c].service_interval_km

\* Car 1 (45000, 10000, 55000) saved with the interval 8000 holds 53000.
C13_Witness ==
    /\ resp.op = "Automobile.save"
    /\ automobiles[1].last_service_mileage = 45000
    /\ automobiles[1].service_interval_km = 8000
    /\ automobiles[1].next_service_mileage = 53000

----------------------------------------------------------------------------
(* Claims checked under SpecQuery: active_by_phone *)

\* The driver the last active_by_phone request named.
AskedDriver == CHOOSE d \in DriverIds : drivers[d] = resp.query[1]

\* C14: active_by_phone answers the ACTIVE appointments of the driver asked
\* for, each once, as {id, date, time, car_plate}, ordered by the slot's
\* (date, time); no cancelled appointment and no appointment of another
\* driver is answered.
C14_ActiveByPhone ==
    resp.op = "active_by_phone" /\ resp.code = 200
    => /\ {resp.body[k].id : k \in 1..Len(resp.body)}
             = {i \in Ids : /\ appointments[i].driver = AskedDriver
                            /\ appointments[i].status = ACTIVE}
       /\ \A k, l \in 1..Len(resp.body) :
             resp.body[k].id = resp.body[l].id => k = l
       /\ \A k \in 1..Len(resp.body) :
             LET ap == appointments[resp.body[k].id] IN
             /\ resp.body[k].date = DateStr(SlotTable[ap.slot].date)
             /\ resp.body[k].time
                   = <<SlotTable[ap.slot].time \div 60, SlotTable[ap.slot].time % 60>>
             /\ resp.body[k].car_plate = AutomobileTable[ap.car].plate_number
       /\ \A k \in 1..Len(resp.body) - 1 :
             ~SlotBefore(appointments[resp.body[k + 1].id].slot,
                         appointments[resp.body[k].id].slot)

\* Driver 2 and driver 1 each hold an ACTIVE appointment, that of driver 1
\* on slot 2 (2026-01-31 10:00); driver 1 is answered its own only.
C14_Witness ==
    /\ resp.op = "active_by_phone"
    /\ resp.query = <<Phone8>>
    /\ Len(appointments) = 2
    /\ appointments[1].driver = 2 /\ appointments[1].status = ACTIVE
    /\ appointments[2].driver = 1 /\ appointments[2].status = ACTIVE
    /\ appointments[2].slot = 2
    /\ resp.body = <<[id |-> 2, date |-> <<2026, 1, 31>>, time |-> <<10, 0>>,
                      car_plate |-> "A001AA"]>>

----------------------------------------------------------------------------
(* Claims checked under SpecFail *)

\* C15: when a create has ended with an error after one of its two writes,
\* and no other request has started, the slot it asked for is BUSY exactly
\* when an ACTIVE appointment is on it: no ACTIVE appointment on a FREE
\* slot, no BUSY slot without an ACTIVE appointment.
C15_AtomicCreate ==
    \A p \in DOMAIN reqs :
       /\ reqs[p].pc = "done"
       /\ reqs[p].code = 500
       /\ \A q \in DOMAIN reqs \ {p} : reqs[q].pc = "validate"
       => (slots[reqs[p].data.slot] = BUSY <=> ActiveOn(reqs[p].data.slot) # {})

----------------------------------------------------------------------------
(* Claims checked under Spec: create and the cancellation side effects *)

\* C16: after a create answered 201 the appointment it inserted is ACTIVE,
\* its car is the car of its driver, and its slot is BUSY.
C16_CreateYieldsActive ==
    resp.op = "create" /\ resp.code = 201
    => LET ap == appointments[Len(appointments)] IN
       /\ ap.status = ACTIVE
       /\ ap.car = DriverTable[ap.driver].car
       /\ slots[ap.slot] = BUSY

\* C17: a step appends a Notification, or takes a slot from BUSY to FREE,
\* only if it takes an appointment from ACTIVE to a cancelled status.
C17_SideEffectsOnlyOnCancellation ==
    [][(\/ Len(notifications') > Len(notifications)
        \/ \E s \in SlotIds : slots[s] = BUSY /\ slots'[s] = FREE)
       => \E i \in Ids : /\ appointments[i].status = ACTIVE
                         /\ appointments'[i].status \in Cancelled]_vars


----------------------------------------------------------------------------
(* Claims checked under SpecSteps *)

\* C18: within a cancellation, a step writes the slot only when the
\* cancelled status of the appointment is stored; a step writes the
\* Notification only when, besides, the slot is FREE; and a step makes the
\* delivery attempt only when, besides, the Notification of this
\* cancellation is the last of the table.
C18_CancellationOrder ==
    [][reqs # <<>>
       => LET r == reqs[1]
              persisted == appointments[r.id].status \in Cancelled
              released == slots[r.instance.slot] = FREE
              audited ==
                 /\ notifications # <<>>
                 /\ notifications[Len(notifications)]
                       = [driver |-> r.instance.driver,
                          text |-> CancelText(r.instance.slot)]
          IN /\ slots' # slots => persisted
             /\ notifications' # notifications => persisted /\ released
             /\ (reqs' # <<>> /\ reqs'[1].delivery # r.delivery)
                => persisted /\ released /\ audited]_vars

\* A cancel_user of an ACTIVE appointment on a BUSY slot after its POST
\* raised: the status is stored, the slot FREE, the Notification written.
C18_Witness ==
    /\ reqs # <<>>
    /\ reqs[1].pc = "done"
    /\ reqs[1].op = "cancel_user"
    /\ reqs[1].prev = ACTIVE
    /\ reqs[1].seen = BUSY
    /\ reqs[1].delivery = "exception"
    /\ appointments[reqs[1].id].status = CANCELLED_USER
    /\ slots[reqs[1].instance.slot] = FREE
    /\ Len(notifications) = 1


----------------------------------------------------------------------------
(* Claims checked under Spec: the repeated cancel_user *)

\* C19: a cancel_user of an appointment that is already CANCELLED_USER
\* answers 200 and leaves the appointments, the slots (a slot booked again
\* stays BUSY) and the Notification table as they were.
C19_RepeatedCancelIdempotent ==
    [][resp'.op = "cancel_user"
       => \A id \in Ids :
             appointments[id].status = CANCELLED_USER /\ cancel_user(id)
             => /\ resp'.code = 200
                /\ appointments' = appointments
                /\ slots' = slots
                /\ notifications' = notifications]_vars

\* Appointment 1 was cancelled by its driver and its slot booked again by
\* appointment 2; a cancel_user that sent nothing has been answered 200.
C19_Witness ==
    /\ resp.op = "cancel_user"
    /\ resp.code = 200
    /\ resp.delivery = "none"
    /\ Len(appointments) = 2
    /\ appointments[1].status = CANCELLED_USER
    /\ appointments[2].status = ACTIVE
    /\ appointments[2].slot = appointments[1].slot
    /\ slots[appointments[1].slot] = BUSY
    /\ Len(notifications) = 1

====
